---- MODULE Spec2Model ----
\* Model of the Seoul low-cost-coffee site dashboard (src/app.py).
\*
\* The dashboard is a Streamlit script: every widget change re-runs the whole
\* script against the snapshot loaded once by load_data().  The state is the
\* loaded snapshot (df_dong, df_rec), the widget values, and what the current
\* run put on the page (top_10_brands, df_view, show_df, df_r, grouped_recs).
\* A second small machine (variable calc) applies the scoring functions.
EXTENDS Integers, Sequences, FiniteSets, TLC

VARIABLES
    df_dong,                 \* neighbourhood table, one row per dong
    df_rec,                  \* recommendation candidates (data["recommend_top"])
    global_selected_brands,  \* sidebar multiselect, in selection order
    selected_tab,            \* sidebar radio
    sort_method,             \* overview tab: ranking criterion
    dong_search,             \* dong tab: single-dong selectbox
    brand_filter,            \* dong tab: brand selectbox
    sort_by,                 \* dong tab: sort column
    rec_brand,               \* recommendation tab: brand selectbox
    rec_sort,                \* recommendation tab: sort column
    rec_search,              \* recommendation tab: dong multiselect
    top_10_brands,           \* overview tab output
    top30,                   \* overview tab: dongs of the brand-distribution chart
    df_view,                 \* dong tab: filtered and sorted table
    show_df,                 \* dong tab: rows shown (head)
    df_r,                    \* recommendation tab: filtered, sorted, truncated
    grouped_recs,            \* recommendation tab: cards
    BRAND_STATS,             \* data["brand_stats"]: per-brand precomputed totals
    tie_order,               \* how this build's quicksort leaves rows of equal key
    page,                    \* what the run reported: "ok", "warning", "KeyError"
    calc                     \* scoring machine: inputs and results

vars == <<df_dong, df_rec, BRAND_STATS, tie_order, global_selected_brands, selected_tab, sort_method,
          dong_search, brand_filter, sort_by, rec_brand, rec_sort, rec_search,
          top_10_brands, top30, df_view, show_df, df_r, grouped_recs, page, calc>>

snapshot == <<df_dong, df_rec, BRAND_STATS, tie_order>>
widgets  == <<global_selected_brands, selected_tab, sort_method, dong_search,
              brand_filter, sort_by, rec_brand, rec_sort, rec_search>>
rendered == <<top_10_brands, top30, df_view, show_df, df_r, grouped_recs, page>>

----------------------------------------------------------------------------
\* Bounds of the model.

\* largest per-brand store count in a neighbourhood
MaxCount == 2
\* scores range over 0..MaxScore (and NaN)
MaxScore == 2
\* The three truncations (10 brands, 200 table rows, 1000 recommendation
\* records) and the 30-card limit are scaled to the size of the snapshots, so
\* that the truncation cuts.
TopBrands == 1
TableHead == 2
RecHead == 3
CardLimit == 2
\* the brand-distribution chart takes the 30 largest dongs: scaled likewise
ChartTop == 2

----------------------------------------------------------------------------
\* Values.

\* pandas NaN, the missing value of a numeric column
NaN == -1

ALL == "ALL"

BRANDS == <<"mega", "compose">>

BrandSet == {BRANDS[i] : i \in DOMAIN BRANDS}

DongNames == <<"Sinsa", "Nonhyeon", "Yeoksam">>

Dongs == DOMAIN DongNames

Range(s) == {s[i] : i \in DOMAIN s}

RECURSIVE SumOver(_, _)
SumOver(f, S) ==
    IF S = {} THEN 0
    ELSE LET x == CHOOSE y \in S : TRUE IN f[x] + SumOver(f, S \ {x})

\* s[1..n] (pandas head, Python slicing [:n])
Head_n(s, n) == SubSeq(s, 1, IF Len(s) < n THEN Len(s) ELSE n)

----------------------------------------------------------------------------
\* Rationals num/den (a mean is a sum over a count); den = 0 is NaN.

Rat(n) == [num |-> n, den |-> 1]

RatNaN == [num |-> 0, den |-> 0]

IsNaN(q) == q.den = 0

\* Python's float comparison: every comparison with NaN is False
RatLess(a, b) == ~IsNaN(a) /\ ~IsNaN(b) /\ a.num * b.den < b.num * a.den

----------------------------------------------------------------------------
\* pandas DataFrame.sort_values(key, ascending, na_position="last") with the
\* default kind="quicksort".  The NaN rows are set aside in index order and
\* put last; the other rows come out ordered by key.  quicksort is not a
\* stable sort: the order it leaves among rows of equal key belongs to the
\* build (numpy's scalar or vector code path), the same on every run of one
\* build.  order = "kept": ties stay in index order; "swapped": ties come out
\* in the opposite order.

TieOrders == {"kept", "swapped"}

Reverse(s) == [i \in DOMAIN s |-> s[Len(s) + 1 - i]]

\* row x goes before row y
Before(x, y, key, ascending) ==
    IF ascending THEN x[key] < y[key] ELSE x[key] > y[key]

\* x put behind every row of s that does not go after it
RECURSIVE InsertRow(_, _, _, _)
InsertRow(s, x, key, ascending) ==
    IF s = <<>> THEN <<x>>
    ELSE IF Before(x, Head(s), key, ascending) THEN <<x>> \o s
    ELSE <<Head(s)>> \o InsertRow(Tail(s), x, key, ascending)

RECURSIVE InsertionSort(_, _, _)
InsertionSort(s, key, ascending) ==
    IF s = <<>> THEN <<>>
    ELSE InsertRow(InsertionSort(SubSeq(s, 1, Len(s) - 1), key, ascending),
                   s[Len(s)], key, ascending)

\* sort_values as it would be with na_position="first"; the nulls-last
\* property C5 is a property of the code's sort_values and fails of this one
sort_values_na_first(rows, key, ascending, order) ==
    LET valid(r) == r[key] # NaN
        isna(r)  == r[key] = NaN
        non_nans == SelectSeq(rows, valid)
    IN  SelectSeq(rows, isna)
        \o InsertionSort(IF order = "kept" THEN non_nans ELSE Reverse(non_nans), key, ascending)

sort_values(rows, key, ascending, order) ==
    LET valid(r) == r[key] # NaN
        isna(r)  == r[key] = NaN
        non_nans == SelectSeq(rows, valid)
    IN  InsertionSort(IF order = "kept" THEN non_nans ELSE Reverse(non_nans), key, ascending)
        \o SelectSeq(rows, isna)

----------------------------------------------------------------------------
\* Python's sorted(seq, key=..., reverse=True): stable, so items of equal key
\* keep their order in seq.  keyf maps an item to its (rational) key.

\* x put behind every item of s whose key is not less than its own
RECURSIVE InsertByKey(_, _, _)
InsertByKey(s, x, keyf) ==
    IF s = <<>> THEN <<x>>
    ELSE IF RatLess(keyf[Head(s)], keyf[x]) THEN <<x>> \o s
    ELSE <<Head(s)>> \o InsertByKey(Tail(s), x, keyf)

RECURSIVE StableDesc(_, _)
StableDesc(seq, keyf) ==
    IF seq = <<>> THEN <<>>
    ELSE InsertByKey(StableDesc(SubSeq(seq, 1, Len(seq) - 1), keyf), seq[Len(seq)], keyf)

RECURSIVE Orders(_, _)
Orders(seq, S) ==
    IF S = {} THEN {<<>>}
    ELSE UNION { { <<seq[i]>> \o t : t \in Orders(seq, S \ {i}) } : i \in S }

\* The outcomes of the sort.  Two items are decided by the one comparison
\* made (the second goes first only when the first's key is less), NaN or
\* not.  With a NaN among the keys of three or more items the comparisons are
\* not an order and the result depends on the interpreter's run detection
\* and merge strategy: any arrangement.
sorted(seq, keyf) ==
    IF Len(seq) > 2 /\ \E i \in DOMAIN seq : IsNaN(keyf[seq[i]])
    THEN Orders(seq, DOMAIN seq)
    ELSE {StableDesc(seq, keyf)}

----------------------------------------------------------------------------
\* Module level of the script: what every run computes before the tabs.

\* the selection taken as it is, empty when nothing is selected; C25 fails
\* of it
ACTIVE_BRANDS_as_selected(selected) == selected

\* ACTIVE_BRANDS: the selection, or every brand when nothing is selected
ACTIVE_BRANDS(selected) == IF selected # <<>> THEN selected ELSE BRANDS

\* BRAND_ATTR_MAP[b]: mean attractiveness_score over the dongs where b has a
\* store (the mean skips NaN; of no value at all it is NaN), 0 for no dong
BRAND_ATTR_MAP(b) ==
    LET dong_with_brand == {i \in DOMAIN df_dong : df_dong[i].cnt[b] > 0}
        valid == {i \in dong_with_brand : df_dong[i].attractiveness_score # NaN}
        score == [i \in DOMAIN df_dong |-> df_dong[i].attractiveness_score]
    IN  IF dong_with_brand = {} THEN Rat(0)
        ELSE [num |-> SumOver(score, valid), den |-> Cardinality(valid)]

\* sort_key_map[sort_method]
sort_key_map(method) ==
    [b \in BrandSet |->
        CASE method = "attractiveness" -> BRAND_ATTR_MAP(b)
          [] method = "total_stores"   -> Rat(BRAND_STATS[b].total_stores)
          [] method = "dong_count"     -> Rat(BRAND_STATS[b].dong_count)]

SortMethods == {"attractiveness", "total_stores", "dong_count"}

\* the dong tab sorts by one of these columns
SortByOptions == {"total_brand_count", "attractiveness_score", "opportunity_score"}

\* the recommendation tab sorts by one of these columns
RecSortOptions == {"attractiveness_score", "demand_score", "cost_score"}

Tabs == {"overview", "dong", "recommend"}

----------------------------------------------------------------------------
\* Overview tab: the brand ranking.

\* sorted(ACTIVE_BRANDS, key=sort_key_map[sort_method], reverse=True)[:10]
RankBrands(active, method) ==
    { Head_n(o, TopBrands) : o \in sorted(active, sort_key_map(method)) }

\* DataFrame.nlargest(n, key): the n rows of largest key, largest first, rows
\* of equal key in index order (keep="first")
nlargest(rows, n, key) == Head_n(InsertionSort(rows, key, FALSE), n)

\* df_dong[df_dong["total_brand_count"] > 0].nlargest(30, "total_brand_count")
Top30 ==
    LET counted(r) == r.total_brand_count > 0
    IN  nlargest(SelectSeq(df_dong, counted), ChartTop, "total_brand_count")

----------------------------------------------------------------------------
\* Dong tab: filter, recompute the total over the selected brands, sort, head.

FilterDongs(search, bfilter) ==
    LET keep(r) == /\ search = ALL \/ r.dong_name = search
                   /\ bfilter = ALL \/ bfilter \notin DOMAIN r.cnt \/ r.cnt[bfilter] > 0
    IN  SelectSeq(df_dong, keep)

\* df_view["total_brand_count"] = df_view[ACTIVE_BRAND_COLS].sum(axis=1)
RecountTotal(rows, selected) ==
    IF selected = <<>> THEN rows
    ELSE [i \in DOMAIN rows |->
            [rows[i] EXCEPT !.total_brand_count = SumOver(rows[i].cnt, Range(selected))]]

\* df_view.sort_values(sort_by, ascending=False, na_position="last")
SortDongs(rows, key) == sort_values(rows, key, FALSE, tie_order)

ViewDongs(selected, search, bfilter, key) ==
    SortDongs(RecountTotal(FilterDongs(search, bfilter), selected), key)

ShowRows(view) == Head_n(view, TableHead)

----------------------------------------------------------------------------
\* Recommendation tab: filter, sort, head, group by dong name.

\* a filter that leaves the dong selection out; C21 fails of it
FilterRecs_brand_only(brand, search) ==
    LET keep(r) == brand = ALL \/ r.brand = brand
    IN  SelectSeq(df_rec, keep)

FilterRecs(brand, search) ==
    LET keep(r) == /\ brand = ALL \/ r.brand = brand
                   /\ search = {} \/ r.dong_name \in search
    IN  SelectSeq(df_rec, keep)

\* the records ranked from the smallest key up; C26 fails of it
RankRecs_ascending(rows, key) == Head_n(sort_values(rows, key, TRUE, tie_order), RecHead)

\* df_r.sort_values(rec_sort, ascending=False).head(1000)
RankRecs(rows, key) == Head_n(sort_values(rows, key, FALSE, tie_order), RecHead)

\* df_r["dong_name"].unique(): the names in order of first appearance
RECURSIVE Unique(_)
Unique(names) ==
    IF names = <<>> THEN <<>>
    ELSE LET front == Unique(SubSeq(names, 1, Len(names) - 1))
             last  == names[Len(names)]
         IN  IF last \in Range(front) THEN front ELSE Append(front, last)

\* a card that lists the brand of the dong's first record only; C19 fails of
\* it
GroupCards_first(rows, dong) ==
    LET same(r) == r.dong_name = dong
        dong_group == SelectSeq(rows, same)
        b == dong_group[1].brand
    IN  { [dong_name |-> dong, data |-> dong_group[1], brands |-> <<b>>,
           scores |-> <<IF b \in BrandSet THEN BRAND_ATTR_MAP(b) ELSE Rat(0)>>] }

\* the cards a dong can get: its rows, its brands sorted by BRAND_ATTR_MAP
GroupCards(rows, dong) ==
    LET same(r) == r.dong_name = dong
        dong_group == SelectSeq(rows, same)
        b_list == [i \in DOMAIN dong_group |-> dong_group[i].brand]
        score == [b \in Range(b_list) |->
                    IF b \in BrandSet THEN BRAND_ATTR_MAP(b) ELSE Rat(0)]
    IN  { [dong_name |-> dong, data |-> dong_group[1], brands |-> b_details,
           scores |-> [i \in DOMAIN b_details |-> score[b_details[i]]]]
          : b_details \in sorted(b_list, score) }

\* the loop over unique_dongs, stopping at the card limit
RECURSIVE GroupLoop(_, _, _)
GroupLoop(rows, dongs, done) ==
    IF dongs = <<>> \/ Len(done) >= CardLimit THEN {done}
    ELSE UNION { GroupLoop(rows, Tail(dongs), Append(done, g))
                 : g \in GroupCards(rows, Head(dongs)) }

GroupRecs(rows) ==
    GroupLoop(rows, Unique([i \in DOMAIN rows |-> rows[i].dong_name]), <<>>)

----------------------------------------------------------------------------
\* One run of the script with the widget values of the next state.

\* The module level of the script ran through: every brand of BRANDS has its
\* cnt_<brand> column.  Without one, df_dong[f"cnt_{b}"] raises KeyError
\* before any widget is drawn.
Started == \A b \in BrandSet : \A i \in DOMAIN df_dong : b \in DOMAIN df_dong[i].cnt

\* df_dong.columns
DongColumns == UNION {DOMAIN df_dong[i] : i \in DOMAIN df_dong}

\* total_counts = {b: df_dong[f"cnt_{b}"].sum() for b in ACTIVE_BRANDS}: the
\* per-brand totals of the market-share chart
total_counts(b) == SumOver([i \in DOMAIN df_dong |-> df_dong[i].cnt[b]], DOMAIN df_dong)

\* a run that goes through whatever the columns are; C15 fails of it
RunStatus_silent(tab, sort_key, recs) ==
    IF tab = "recommend" /\ recs = <<>> THEN "warning" ELSE "ok"

\* How a run ends: with the KeyError pandas raises for a column that is not
\* there, with the warning of the recommendation tab for no record, or
\* through ("ok"; the dong tab then shows the table and its row count,
\* whatever the count).  A candidate list without records makes a DataFrame
\* without columns, so the recommendation tab's sort_values(rec_sort) raises
\* KeyError before the emptiness test.
RunStatus(tab, sort_key, recs) ==
    IF ~Started THEN "KeyError"
    ELSE IF tab = "dong" /\ sort_key \notin DongColumns THEN "KeyError"
    ELSE IF tab = "recommend" /\ df_rec = <<>> THEN "KeyError"
    ELSE IF tab = "recommend" /\ recs = <<>> THEN "warning"
    ELSE "ok"

\* a tab that works on the shared table itself: the recount of
\* total_brand_count lands in df_dong; C23 fails of it
SharedAfterRun_inplace(table, view) ==
    [d \in DOMAIN table |->
        IF \E i \in DOMAIN view : view[i].dong_code = table[d].dong_code
        THEN [table[d] EXCEPT !.total_brand_count =
                view[CHOOSE i \in DOMAIN view :
                        view[i].dong_code = table[d].dong_code].total_brand_count]
        ELSE table[d]]

\* df_view = df_dong.copy(): the dong tab filters, recounts and sorts a copy,
\* so the shared table after the run is the table before it
SharedAfterRun(table, view) == table

Rerun ==
    /\ Started
    /\ top_10_brands' \in
         IF selected_tab' = "overview"
         THEN RankBrands(ACTIVE_BRANDS(global_selected_brands'), sort_method')
         ELSE {<<>>}
    /\ top30' = IF selected_tab' = "overview" THEN Top30 ELSE <<>>
    /\ df_view' =
         IF selected_tab' = "dong" /\ sort_by' \in DongColumns
         THEN ViewDongs(global_selected_brands', dong_search', brand_filter', sort_by')
         ELSE <<>>
    /\ df_dong' = SharedAfterRun(df_dong, df_view')
    /\ show_df' = ShowRows(df_view')
    /\ df_r' =
         IF selected_tab' = "recommend"
         THEN RankRecs(FilterRecs(rec_brand', rec_search'), rec_sort')
         ELSE <<>>
    /\ grouped_recs' \in IF df_r' = <<>> THEN {<<>>} ELSE GroupRecs(df_r')
    /\ page' = RunStatus(selected_tab', sort_by', df_r')

\* widgets of a tab that is not drawn lose their value
TabDefaults ==
    /\ sort_method' = "attractiveness"
    /\ dong_search' = ALL
    /\ brand_filter' = ALL
    /\ sort_by' = "total_brand_count"
    /\ rec_brand' = ALL
    /\ rec_sort' = "attractiveness_score"
    /\ rec_search' = {}

----------------------------------------------------------------------------
\* The analyst's actions.

\* sidebar multiselect of brands: one brand added (at the end) or removed; the
\* brand selectboxes are rebuilt from the new ACTIVE_BRANDS and start again
\* at "all"
SelectBrands ==
    \E b \in BrandSet :
        /\ global_selected_brands' =
             IF b \in Range(global_selected_brands)
             THEN LET other(x) == x # b IN SelectSeq(global_selected_brands, other)
             ELSE Append(global_selected_brands, b)
        /\ brand_filter' = ALL
        /\ rec_brand' = ALL
        /\ UNCHANGED <<selected_tab, sort_method, dong_search, sort_by, rec_sort, rec_search>>
        /\ Rerun
        /\ UNCHANGED <<df_rec, BRAND_STATS, tie_order, calc>>

SelectTab ==
    \E t \in Tabs :
        /\ t # selected_tab
        /\ selected_tab' = t
        /\ TabDefaults
        /\ UNCHANGED global_selected_brands
        /\ Rerun
        /\ UNCHANGED <<df_rec, BRAND_STATS, tie_order, calc>>

SelectSortMethod ==
    \E m \in SortMethods :
        /\ selected_tab = "overview"
        /\ m # sort_method
        /\ sort_method' = m
        /\ UNCHANGED <<global_selected_brands, selected_tab, dong_search, brand_filter,
                       sort_by, rec_brand, rec_sort, rec_search>>
        /\ Rerun
        /\ UNCHANGED <<df_rec, BRAND_STATS, tie_order, calc>>

SelectDong ==
    \E d \in {ALL} \cup {df_dong[i].dong_name : i \in DOMAIN df_dong} :
        /\ selected_tab = "dong"
        /\ d # dong_search
        /\ dong_search' = d
        /\ UNCHANGED <<global_selected_brands, selected_tab, sort_method, brand_filter,
                       sort_by, rec_brand, rec_sort, rec_search>>
        /\ Rerun
        /\ UNCHANGED <<df_rec, BRAND_STATS, tie_order, calc>>

SelectBrandFilter ==
    \E b \in {ALL} \cup Range(ACTIVE_BRANDS(global_selected_brands)) :
        /\ selected_tab = "dong"
        /\ b # brand_filter
        /\ brand_filter' = b
        /\ UNCHANGED <<global_selected_brands, selected_tab, sort_method, dong_search,
                       sort_by, rec_brand, rec_sort, rec_search>>
        /\ Rerun
        /\ UNCHANGED <<df_rec, BRAND_STATS, tie_order, calc>>

SelectSortBy ==
    \E k \in SortByOptions :
        /\ selected_tab = "dong"
        /\ k # sort_by
        /\ sort_by' = k
        /\ UNCHANGED <<global_selected_brands, selected_tab, sort_method, dong_search,
                       brand_filter, rec_brand, rec_sort, rec_search>>
        /\ Rerun
        /\ UNCHANGED <<df_rec, BRAND_STATS, tie_order, calc>>

SelectRecBrand ==
    \E b \in {ALL} \cup Range(ACTIVE_BRANDS(global_selected_brands)) :
        /\ selected_tab = "recommend"
        /\ b # rec_brand
        /\ rec_brand' = b
        /\ UNCHANGED <<global_selected_brands, selected_tab, sort_method, dong_search,
                       brand_filter, sort_by, rec_sort, rec_search>>
        /\ Rerun
        /\ UNCHANGED <<df_rec, BRAND_STATS, tie_order, calc>>

SelectRecSort ==
    \E k \in RecSortOptions :
        /\ selected_tab = "recommend"
        /\ k # rec_sort
        /\ rec_sort' = k
        /\ UNCHANGED <<global_selected_brands, selected_tab, sort_method, dong_search,
                       brand_filter, sort_by, rec_brand, rec_search>>
        /\ Rerun
        /\ UNCHANGED <<df_rec, BRAND_STATS, tie_order, calc>>

\* the dong multiselect: one name added or removed
SelectRecDongs ==
    \E d \in {df_dong[i].dong_name : i \in DOMAIN df_dong} :
        /\ selected_tab = "recommend"
        /\ rec_search' = IF d \in rec_search THEN rec_search \ {d} ELSE rec_search \cup {d}
        /\ UNCHANGED <<global_selected_brands, selected_tab, sort_method, dong_search,
                       brand_filter, sort_by, rec_brand, rec_sort>>
        /\ Rerun
        /\ UNCHANGED <<df_rec, BRAND_STATS, tie_order, calc>>

----------------------------------------------------------------------------
\* The scoring functions.  app.py loads the scores precomputed and states the
\* formulas in its help text; normalize and attractiveness are written here
\* as the design describes them.  get_u_label, penetration_rate, df_comp and
\* get_detailed_metric are code of app.py.

\* the score scale: sub-scores and the composite run from 0 to 100
ScoreMax == 100

RECURSIVE SeqMin(_)
SeqMin(s) ==
    IF Len(s) = 1 THEN s[1]
    ELSE LET m == SeqMin(Tail(s)) IN IF s[1] < m THEN s[1] ELSE m

RECURSIVE SeqMax(_)
SeqMax(s) ==
    IF Len(s) = 1 THEN s[1]
    ELSE LET m == SeqMax(Tail(s)) IN IF s[1] > m THEN s[1] ELSE m

\* a float division: x / 0 is inf or NaN (den = 0), never an exception
FloatDiv(n, d) == [num |-> n, den |-> d]

\* normalisation without the flat-column case; C7 fails of it
normalize_unguarded(values) ==
    LET lo == SeqMin(values)
        hi == SeqMax(values)
    IN  [i \in DOMAIN values |-> FloatDiv(values[i] - lo, hi - lo)]

\* min-max normalisation of a column; a flat column normalises to 0
normalize(values) ==
    LET lo == SeqMin(values)
        hi == SeqMax(values)
    IN  [i \in DOMAIN values |->
            IF hi = lo THEN Rat(0) ELSE FloatDiv(values[i] - lo, hi - lo)]

\* a composite whose weights sum to more than 1; C6 fails of it
attractiveness_overweight(demand, competition, cost) ==
    demand * 4 + competition * 4 + cost * 3

\* a composite that counts competition against the dong; C8 fails of it
attractiveness_penalised(demand, competition, cost) ==
    demand * 4 - competition * 3 + cost * 3

\* attractiveness = demand*0.4 + competition*0.3 + cost*0.3, in tenths of a
\* point (the weights are taken times 10)
attractiveness_score(demand, competition, cost) ==
    demand * 4 + competition * 3 + cost * 3

\* df_u['penetration_rate'] = (low-cost stores / all cafes) * 100
penetration_rate(low_cost, cafes) == FloatDiv(low_cost * 100, cafes)

\* rate <= n as floats compare: False for NaN, False for +inf
RateLeq(rate, n) == rate.den > 0 /\ rate.num <= n * rate.den

\* the buckets with the lower boundary open (rate < 3); C9 fails of it
get_u_label_open(rate) ==
    IF rate.den > 0 /\ rate.num < 3 * rate.den THEN "1pt under-validated"
    ELSE IF RateLeq(rate, 15) THEN "4pt optimal band"
    ELSE "2pt over-saturated"

get_u_label(rate) ==
    IF RateLeq(rate, 3) THEN "1pt under-validated"
    ELSE IF RateLeq(rate, 15) THEN "4pt optimal band"
    ELSE "2pt over-saturated"

\* the score a label stands for (its leading digit)
LabelScore(label) ==
    CASE label = "1pt under-validated" -> 1
      [] label = "4pt optimal band"    -> 4
      [] label = "2pt over-saturated"  -> 2

\* the competition table without the total_workers > 0 filter; C10 fails of it
df_comp_unfiltered(rows) ==
    [i \in DOMAIN rows |->
        [dong_code |-> rows[i].dong_code,
         cafe_count |-> rows[i].cafe_count,
         total_workers |-> rows[i].total_workers,
         competition_ratio |-> FloatDiv(rows[i].cafe_count, rows[i].total_workers)]]

\* df_comp: the dongs with workers, each with cafe_count / total_workers
df_comp(rows) ==
    LET has_workers(r) == r.total_workers > 0
        kept == SelectSeq(rows, has_workers)
    IN  [i \in DOMAIN kept |->
            [dong_code |-> kept[i].dong_code,
             cafe_count |-> kept[i].cafe_count,
             total_workers |-> kept[i].total_workers,
             competition_ratio |-> FloatDiv(kept[i].cafe_count, kept[i].total_workers)]]

\* the characters str.replace removes from a dong name before the lookup
Punctuation == {"middle-dot", ".", "bullet"}

\* str.strip(): the spaces at both ends go
RECURSIVE strip(_)
strip(name) ==
    IF name = <<>> THEN name
    ELSE IF Head(name) = " " THEN strip(Tail(name))
    ELSE IF name[Len(name)] = " " THEN strip(SubSeq(name, 1, Len(name) - 1))
    ELSE name

\* row['dong_name'].replace(...)....strip(): a name is a sequence of characters
StripName(name) ==
    LET letter(c) == c \notin Punctuation IN strip(SelectSeq(name, letter))

\* the lookup with a default of 1, the lowest bucket; C14 as amended fails
\* of it
get_detailed_metric_lowest(detailed_data, name, metric) ==
    LET key == StripName(name)
    IN  IF key \in DOMAIN detailed_data /\ metric \in DOMAIN detailed_data[key]
        THEN detailed_data[key][metric]
        ELSE 1

\* detailed_data.get(name, {}).get(metric, 0)
get_detailed_metric(detailed_data, name, metric) ==
    LET key == StripName(name)
    IN  IF key \in DOMAIN detailed_data /\ metric \in DOMAIN detailed_data[key]
        THEN detailed_data[key][metric]
        ELSE 0

\* the two bucketed metrics among metrics_to_add
BucketMetrics == {"commercial_index", "penetration_score"}

\* if detailed_data: df_dong[m] = df_dong.apply(get_detailed_metric ...): the
\* metric columns of one dong; no column at all when the overlay is empty
metrics_to_add(detailed_data, name) ==
    IF DOMAIN detailed_data = {} THEN <<>>
    ELSE [m \in BucketMetrics |-> get_detailed_metric(detailed_data, name, m)]

----------------------------------------------------------------------------
\* load_data(): the snapshot the session works on.

Scores == {NaN} \cup (1..MaxScore)

Pairs == {<<BRANDS[k], d>> : k \in DOMAIN BRANDS, d \in Dongs}

\* position of a (brand, dong) pair in brand-major order
PairPos(p) == (CHOOSE k \in DOMAIN BRANDS : BRANDS[k] = p[1]) * (Len(DongNames) + 1) + p[2]

RECURSIVE PairSeq(_)
PairSeq(P) ==
    IF P = {} THEN <<>>
    ELSE LET p == CHOOSE q \in P : \A r \in P : PairPos(q) <= PairPos(r)
         IN  <<p>> \o PairSeq(P \ {p})

\* the three score columns of dong d; one vector of values is drawn and the
\* columns take it in three rotations, so each column sees every vector
Rot(d, k) == ((d + k - 1) % Len(DongNames)) + 1

\* the opportunity_score load_data finds for dong d: the overlay's value, or
\* the default 0 for the last dong, which the overlay does not name
OverlayValue(d) == IF d = Len(DongNames) THEN 0 ELSE d

DongRow(d, fp, sc) ==
    [index |-> d, dong_code |-> d, dong_name |-> DongNames[d],
     cnt |-> fp[d], total_brand_count |-> SumOver(fp[d], BrandSet),
     attractiveness_score |-> sc[d],
     demand_score |-> sc[Rot(d, 1)],
     cost_score |-> sc[Rot(d, 2)],
     opportunity_score |-> OverlayValue(d)]

\* The shape of the loaded table.  "full": every column.  "no_overlay": the
\* detailed-metrics file is missing or empty, so the metric columns are not
\* added.  "no_column": the dong records carry no count for the last brand
\* of BRANDS, so that brand has no cnt_<brand> column.  "same_name": the last
\* dong has the name of the one before it (a dong name that exists in two
\* districts), under its own code.
Shapes == {"full", "no_overlay", "no_column", "same_name"}

Shaped(r, shape) ==
    CASE shape = "no_overlay" -> [f \in DOMAIN r \ {"opportunity_score"} |-> r[f]]
      [] shape = "no_column"  ->
            [r EXCEPT !.cnt = [b \in BrandSet \ {BRANDS[Len(BRANDS)]} |-> r.cnt[b]]]
      [] shape = "same_name"  ->
            IF r.dong_code = Len(DongNames)
            THEN [r EXCEPT !.dong_name = DongNames[Len(DongNames) - 1]]
            ELSE r
      [] OTHER -> r

RecRow(i, p, dongs) ==
    [index |-> i, brand |-> p[1], dong_code |-> p[2], dong_name |-> dongs[p[2]].dong_name,
     attractiveness_score |-> dongs[p[2]].attractiveness_score,
     demand_score |-> dongs[p[2]].demand_score,
     cost_score |-> dongs[p[2]].cost_score]

\* the candidate lists a snapshot may carry for a footprint: the pairs where
\* the brand has no store, that list with one such pair left out, that
\* list with a pair added where the brand has a store, and the list of no
\* pair
CandidateSets(fp) ==
    LET absent  == {p \in Pairs : fp[p[2]][p[1]] = 0}
        present == Pairs \ absent
    IN  {absent} \cup {absent \ {p} : p \in absent} \cup {absent \cup {p} : p \in present}
        \cup {{}}

\* data["brand_stats"]: the totals the snapshot carries for each brand.  The
\* script reads them as they are; off names the (brand, field) entries that
\* are one more than the dong records give.
StatsOf(dongs, off) ==
    [b \in BrandSet |->
        [total_stores |->
            SumOver([d \in DOMAIN dongs |-> dongs[d].cnt[b]], DOMAIN dongs)
            + (IF <<b, "total_stores">> \in off THEN 1 ELSE 0),
         dong_count |->
            Cardinality({d \in DOMAIN dongs : dongs[d].cnt[b] > 0})
            + (IF <<b, "dong_count">> \in off THEN 1 ELSE 0)]]

\* the brand_stats a snapshot may carry: in step with the dong records, or
\* with one entry out of step
StatsOffsets ==
    {{}} \cup {{<<b, f>>} : b \in BrandSet, f \in {"total_stores", "dong_count"}}

\* The base snapshot: dong 1 has both brands, dong 2 only the first, dong 3
\* none; attractiveness ties between dongs 1 and 3.
BaseFootprint ==
    [d \in Dongs |->
        [b \in BrandSet |->
            CASE d = 1 -> 1
              [] d = 2 -> IF b = BRANDS[1] THEN MaxCount ELSE 0
              [] OTHER -> 0]]

BaseScores == [d \in Dongs |-> IF d = 2 THEN 1 ELSE MaxScore]

\* footprints: the store counts of dong 1 take every value
Footprints ==
    { [BaseFootprint EXCEPT ![1] = row] : row \in [BrandSet -> 0..MaxCount] }

\* score vectors: every dong's score takes every value, NaN included
ScoreVectors == [Dongs -> Scores]

\* the pairs where the brand has no store
Absent(fp) == {p \in Pairs : fp[p[2]][p[1]] = 0}

\* the base footprint with the last brand taken out of dong 1, its only dong
AbsentFootprint ==
    [BaseFootprint EXCEPT ![1] =
        [b \in BrandSet |-> IF b = BRANDS[Len(BRANDS)] THEN 0 ELSE BaseFootprint[1][b]]]

\* a snapshot departs from the base in its footprint, in its scores, in its
\* candidate list, in its brand_stats or in its shape
Snapshots ==
    { <<fp, BaseScores, Absent(fp), {}, "full">> : fp \in Footprints }
    \cup { <<BaseFootprint, sc, Absent(BaseFootprint), {}, "full">> : sc \in ScoreVectors }
    \cup { <<BaseFootprint, BaseScores, P, {}, "full">> : P \in CandidateSets(BaseFootprint) }
    \cup { <<fp, BaseScores, Absent(fp), off, "full">> :
              fp \in {BaseFootprint, AbsentFootprint}, off \in StatsOffsets }
    \cup { <<BaseFootprint, BaseScores, Absent(BaseFootprint), {}, shape>> : shape \in Shapes }

Loaded(fp, sc, P, off, shape) ==
    LET dongs == [d \in Dongs |-> DongRow(d, fp, sc)]
        recs  == PairSeq(P)
        shaped == [d \in Dongs |-> Shaped(dongs[d], shape)]
    IN  /\ df_dong = shaped
        /\ df_rec = [i \in DOMAIN recs |-> RecRow(i, recs[i], shaped)]
        /\ BRAND_STATS = StatsOf(dongs, off)

Idle == [fn |-> "idle", in |-> <<>>, out |-> <<>>]

FirstRun ==
    /\ global_selected_brands = <<>>
    /\ selected_tab = "overview"
    /\ sort_method = "attractiveness"
    /\ dong_search = ALL
    /\ brand_filter = ALL
    /\ sort_by = "total_brand_count"
    /\ rec_brand = ALL
    /\ rec_sort = "attractiveness_score"
    /\ rec_search = {}
    /\ top_10_brands \in
         IF Started THEN RankBrands(BRANDS, "attractiveness") ELSE {<<>>}
    /\ top30 = IF Started THEN Top30 ELSE <<>>
    /\ df_view = <<>>
    /\ show_df = <<>>
    /\ df_r = <<>>
    /\ grouped_recs = <<>>
    /\ page = RunStatus("overview", "total_brand_count", <<>>)

Init ==
    /\ \E s \in Snapshots : Loaded(s[1], s[2], s[3], s[4], s[5])
    /\ tie_order \in TieOrders
    /\ FirstRun
    /\ calc = Idle

Next ==
    \/ SelectBrands
    \/ SelectTab
    \/ SelectSortMethod
    \/ SelectDong
    \/ SelectBrandFilter
    \/ SelectSortBy
    \/ SelectRecBrand
    \/ SelectRecSort
    \/ SelectRecDongs

Spec == Init /\ [][Next]_vars

----------------------------------------------------------------------------
\* The scoring machine: each step applies one scoring function to inputs
\* drawn from small sets and keeps the inputs and the result in calc.

\* longest metric column normalised
MaxLen == 3
\* raw metric values range over 0..MaxVal
MaxVal == 3
\* sub-scores are drawn from 0, ScoreStep, 2*ScoreStep, ... up to ScoreMax
ScoreStep == 25
\* penetration rates are drawn in tenths of a percent from 0..MaxRate10
MaxRate10 == 160
\* cafe, store and worker counts of a row range over 0..MaxUnits
MaxUnits == 2

ScoreGrid == {k * ScoreStep : k \in 0..(ScoreMax \div ScoreStep)} \cup {ScoreMax}

Columns == UNION {[1..n -> 0..MaxVal] : n \in 1..MaxLen}

Rates ==
    {FloatDiv(k, 10) : k \in 0..MaxRate10}
    \cup {penetration_rate(low, cafes) : low \in 0..MaxUnits, cafes \in 0..MaxUnits}

CompRows ==
    {[dong_code |-> d, cafe_count |-> c, total_workers |-> w] :
        d \in Dongs, c \in 0..MaxUnits, w \in 0..MaxUnits}

\* tables of one or two dongs
CompTables ==
    {<<r>> : r \in {x \in CompRows : x.dong_code = 1}}
    \cup {<<r1, r2>> : r1 \in {x \in CompRows : x.dong_code = 1},
                       r2 \in {x \in CompRows : x.dong_code = 2}}

\* overlays: none, an entry with both metrics, an entry with one metric
Overlays ==
    { <<>> }
    \cup { (<<"J", "1", "2">> :> [opportunity_score |-> v, competition_intensity |-> w])
           : v \in 0..MaxUnits, w \in 0..MaxUnits }
    \cup { (<<"J", "1", "2">> :> [opportunity_score |-> v]) : v \in 0..MaxUnits }

OverlayNames ==
    { <<"J", "1", "middle-dot", "2">>, <<"J", "1", ".", "2">>, <<"J", "1", "2", " ">>,
      <<"J", "1", "2">>, <<"S">> }

\* overlays for the bucketed metrics: none, an entry with both metrics, an
\* entry with the commercial index alone
BucketOverlays ==
    { <<>> }
    \cup { (<<"J", "1", "2">> :> [commercial_index |-> c, penetration_score |-> q])
           : c \in 1..4, q \in {1, 2, 4} }
    \cup { (<<"J", "1", "2">> :> [commercial_index |-> c]) : c \in 1..4 }

LoadMetrics ==
    \E detailed \in BucketOverlays, name \in OverlayNames :
        /\ calc' = [fn |-> "metrics_to_add",
                    in |-> [detailed_data |-> detailed, dong_name |-> name],
                    out |-> metrics_to_add(detailed, name)]
        /\ UNCHANGED <<snapshot, widgets, rendered>>

Normalize ==
    \E values \in Columns :
        /\ calc' = [fn |-> "normalize", in |-> values, out |-> normalize(values)]
        /\ UNCHANGED <<snapshot, widgets, rendered>>

Score ==
    \E d \in ScoreGrid, c \in ScoreGrid, k \in ScoreGrid :
        /\ calc' = [fn |-> "attractiveness", in |-> <<d, c, k>>,
                    out |-> attractiveness_score(d, c, k)]
        /\ UNCHANGED <<snapshot, widgets, rendered>>

\* one sub-score of the scored dong is raised, the other two stay
RaiseScore ==
    \E i \in 1..3, v \in ScoreGrid :
        /\ calc.fn \in {"attractiveness", "raised"}
        /\ v > calc.in[i]
        /\ LET to == [calc.in EXCEPT ![i] = v]
           IN  calc' = [fn |-> "raised", in |-> to,
                        out |-> attractiveness_score(to[1], to[2], to[3]),
                        was |-> calc.in, was_out |-> calc.out]
        /\ UNCHANGED <<snapshot, widgets, rendered>>

Label ==
    \E rate \in Rates :
        /\ calc' = [fn |-> "get_u_label", in |-> rate, out |-> get_u_label(rate)]
        /\ UNCHANGED <<snapshot, widgets, rendered>>

\* the rate of one row of the low-cost ratio table and the label it gets
Penetration ==
    \E low \in 0..MaxUnits, cafes \in 0..MaxUnits :
        /\ calc' = [fn |-> "penetration_rate",
                    in |-> [low_cost |-> low, cafes |-> cafes],
                    out |-> [rate |-> penetration_rate(low, cafes),
                             label |-> get_u_label(penetration_rate(low, cafes))]]
        /\ UNCHANGED <<snapshot, widgets, rendered>>

\* overlays for the vitality chart: none, or an entry with a commercial index
VitalityOverlays ==
    { <<>> } \cup { (<<"J", "1", "2">> :> [commercial_index |-> c]) : c \in 1..4 }

\* the dong tables the chart is drawn from: two dongs with the store counts
\* of one brand, the first under a name the overlay may have (written with a
\* middle dot) or not, the second under a name no overlay has
VitalityTables ==
    { << [dong_name |-> n, cnt |-> c1], [dong_name |-> <<"S">>, cnt |-> c2] >>
      : n \in {<<"J", "1", "middle-dot", "2">>, <<"S">>},
        c1 \in 0..MaxUnits, c2 \in 0..MaxUnits }

\* change_labels: the four categories of the commercial index
change_labels == 1..4

\* vitality_dist for one brand.  ci_col = df_dong['commercial_index'] raises
\* KeyError when the column was not loaded; otherwise, for each of the four
\* categories, store_count = df_dong[ci_col == idx][cnt].sum(), reported
\* when positive.
vitality_dist(detailed_data, rows) ==
    IF DOMAIN detailed_data = {} THEN [status |-> "KeyError", dist |-> <<>>]
    ELSE LET ci_col == [i \in DOMAIN rows |->
                          get_detailed_metric(detailed_data, rows[i].dong_name,
                                              "commercial_index")]
             cnt == [i \in DOMAIN rows |-> rows[i].cnt]
             store_count(idx) == SumOver(cnt, {i \in DOMAIN rows : ci_col[i] = idx})
         IN  [status |-> "ok",
              dist |-> [idx \in {k \in change_labels : store_count(k) > 0} |->
                          store_count(idx)]]

Vitality ==
    \E detailed \in VitalityOverlays, rows \in VitalityTables :
        /\ calc' = [fn |-> "vitality_dist",
                    in |-> [detailed_data |-> detailed, rows |-> rows],
                    out |-> vitality_dist(detailed, rows)]
        /\ UNCHANGED <<snapshot, widgets, rendered>>

Compete ==
    \E rows \in CompTables :
        /\ calc' = [fn |-> "df_comp", in |-> rows, out |-> df_comp(rows)]
        /\ UNCHANGED <<snapshot, widgets, rendered>>

Lookup ==
    \E detailed \in Overlays, name \in OverlayNames,
       metric \in {"opportunity_score", "competition_intensity"} :
        /\ calc' = [fn |-> "get_detailed_metric",
                    in |-> [detailed_data |-> detailed, dong_name |-> name, metric |-> metric],
                    out |-> get_detailed_metric(detailed, name, metric)]
        /\ UNCHANGED <<snapshot, widgets, rendered>>

ScoreInit ==
    /\ Loaded(BaseFootprint, BaseScores, Absent(BaseFootprint), {}, "full")
    /\ tie_order = "kept"
    /\ FirstRun
    /\ calc = Idle

ScoreNext ==
    \/ Normalize
    \/ Score
    \/ RaiseScore
    \/ Label
    \/ Penetration
    \/ Compete
    \/ Lookup
    \/ LoadMetrics
    \/ Vitality

ScoreSpec == ScoreInit /\ [][ScoreNext]_vars

----------------------------------------------------------------------------
\* Properties of the views (checked under Spec).

Min(a, b) == IF a < b THEN a ELSE b

\* the row of df_dong a dong name belongs to
DongOf(name) == CHOOSE i \in DOMAIN df_dong : df_dong[i].dong_name = name

\* the stores brand b has in the dong of that name
StoreCount(b, name) == df_dong[DongOf(name)].cnt[b]

\* key a ranks at or above key b in a descending ranking, a missing key
\* ranking below every value
RanksAtLeast(a, b) == IsNaN(b) \/ (~IsNaN(a) /\ ~RatLess(a, b))

SameKey(a, b) == ~IsNaN(a) /\ ~IsNaN(b) /\ a.num * b.den = b.num * a.den

\* C1: whatever the brand filter, the dong-name filter and the sort key on the
\* recommendation tab, no record shown (in the list or on a card) pairs a
\* brand with a dong where that brand has a store, whatever candidate records
\* the snapshot carries.
C1_NoPresentBrandRecommended ==
    /\ \A i \in DOMAIN df_r : StoreCount(df_r[i].brand, df_r[i].dong_name) = 0
    /\ \A g \in DOMAIN grouped_recs :
          \A k \in DOMAIN grouped_recs[g].brands :
              StoreCount(grouped_recs[g].brands[k], grouped_recs[g].dong_name) = 0

\* C2: the candidates of a brand are the whole complement of its footprint:
\* for every brand b and dong n where b has no store, the record (b, n) is
\* among the records of the recommendation tab before the dong-name filter and
\* the truncation (after the brand filter alone, when it lets b through).
C2_UniverseIsComplement ==
    selected_tab = "recommend" =>
        LET eligible == FilterRecs(rec_brand, {})
        IN  \A b \in BrandSet, d \in DOMAIN df_dong :
                (df_dong[d].cnt[b] = 0 /\ rec_brand \in {ALL, b}) =>
                    \E i \in DOMAIN eligible :
                        /\ eligible[i].brand = b
                        /\ eligible[i].dong_name = df_dong[d].dong_name

\* C3: each ranking shows min(limit, number of items) items, all of them from
\* the items ranked, and every item shown has a key at or above the key of
\* every item left out: in the brand ranking, in the dong table and in the
\* recommendation list.
C3_TopAfterSort ==
    /\ (selected_tab = "overview" /\ page = "ok") =>
         LET active == ACTIVE_BRANDS(global_selected_brands)
             key    == sort_key_map(sort_method)
         IN  /\ Len(top_10_brands) = Min(TopBrands, Len(active))
             /\ Range(top_10_brands) \subseteq Range(active)
             /\ \A b \in Range(top_10_brands) :
                    \A e \in Range(active) \ Range(top_10_brands) :
                        RanksAtLeast(key[b], key[e])
    /\ (selected_tab = "dong" /\ page = "ok") =>
         LET rows == RecountTotal(FilterDongs(dong_search, brand_filter),
                                  global_selected_brands)
         IN  /\ Len(show_df) = Min(TableHead, Len(rows))
             /\ Range(show_df) \subseteq Range(rows)
             /\ \A r \in Range(show_df) :
                    \A e \in Range(rows) \ Range(show_df) : r[sort_by] >= e[sort_by]
    /\ selected_tab = "recommend" =>
         LET rows == FilterRecs(rec_brand, rec_search)
         IN  /\ Len(df_r) = Min(RecHead, Len(rows))
             /\ Range(df_r) \subseteq Range(rows)
             /\ \A r \in Range(df_r) :
                    \A e \in Range(rows) \ Range(df_r) : r[rec_sort] >= e[rec_sort]

\* the part of C3 that is about the two pandas rankings alone
TopAfterSortOfTables == selected_tab # "overview" => C3_TopAfterSort

\* C4: rows of equal sort key are shown in their original order (the order of
\* their index in the loaded table) in the dong table and in the
\* recommendation list, and the brand shown first in the brand ranking is the
\* earliest of the active brands of its key.
C4_StableSort ==
    /\ \A i, j \in DOMAIN df_view :
          (i < j /\ df_view[i][sort_by] = df_view[j][sort_by])
              => df_view[i].index < df_view[j].index
    /\ \A i, j \in DOMAIN df_r :
          (i < j /\ df_r[i][rec_sort] = df_r[j][rec_sort])
              => df_r[i].index < df_r[j].index
    /\ (selected_tab = "overview" /\ top_10_brands # <<>>) =>
         LET active == ACTIVE_BRANDS(global_selected_brands)
             key    == sort_key_map(sort_method)
             pos(b) == CHOOSE i \in DOMAIN active : active[i] = b
         IN  \A e \in Range(active) :
                 SameKey(key[e], key[top_10_brands[1]]) => pos(top_10_brands[1]) <= pos(e)

\* the part of C4 that is about the brand ranking alone
StableBrandRanking == selected_tab = "overview" => C4_StableSort

NullsLast(rows, key) ==
    \A i, j \in DOMAIN rows : (i < j /\ rows[i][key] = NaN) => rows[j][key] = NaN

NonIncreasing(rows, key) ==
    \A i, j \in DOMAIN rows :
        (i < j /\ rows[i][key] # NaN /\ rows[j][key] # NaN) => rows[i][key] >= rows[j][key]

\* C5: in the dong table and in the recommendation list the rows whose sort
\* key is missing come after every row that has one, and the rows that have
\* one are in non-increasing key order; sort_values puts the missing keys last
\* in the ascending direction as well.
C5_NullsLast ==
    /\ NullsLast(df_view, sort_by) /\ NonIncreasing(df_view, sort_by)
    /\ NullsLast(df_r, rec_sort) /\ NonIncreasing(df_r, rec_sort)
    /\ NullsLast(show_df, sort_by)
    /\ \A asc \in BOOLEAN :
          /\ sort_by \in DongColumns =>
                NullsLast(sort_values(df_dong, sort_by, asc, tie_order), sort_by)
          /\ NullsLast(sort_values(df_rec, rec_sort, asc, tie_order), rec_sort)

\* C5 happens: the dong table is sorted by a column in which an earlier row
\* of the loaded table has no value and a later row has one, and the table
\* shows the later row first.
C5_Witness_NullMovedLast ==
    /\ selected_tab = "dong"
    /\ \E i, j \in DOMAIN df_view :
          /\ i < j
          /\ df_view[i][sort_by] # NaN
          /\ df_view[j][sort_by] = NaN
          /\ df_view[j].index < df_view[i].index

----------------------------------------------------------------------------
\* Properties of the scoring functions (checked under ScoreSpec).  calc.out
\* of an attractiveness step is in tenths of a point.

\* C6: the attractiveness of sub-scores that each lie in [0, 100] is
\* demand*0.4 + competition*0.3 + cost*0.3 and lies in [0, 100].
C6_AttractivenessInRange ==
    calc.fn \in {"attractiveness", "raised"} =>
        ((\A i \in 1..3 : 0 <= calc.in[i] /\ calc.in[i] <= ScoreMax) =>
            /\ calc.out = 4 * calc.in[1] + 3 * calc.in[2] + 3 * calc.in[3]
            /\ 0 <= calc.out
            /\ calc.out <= 10 * ScoreMax)

\* C6 happens at the top of the range: three sub-scores of 100 score 100.
C6_Witness_TopOfRange ==
    /\ calc.fn = "attractiveness"
    /\ calc.in = <<ScoreMax, ScoreMax, ScoreMax>>
    /\ calc.out = 10 * ScoreMax

\* C7: normalize never divides by zero; of a column of one value or of equal
\* values (max = min) it returns 0 for every element; of any other column
\* every output lies in [0, 1].
C7_NormalizeFlatAndRange ==
    calc.fn = "normalize" =>
        LET flat == \A i, j \in DOMAIN calc.in : calc.in[i] = calc.in[j]
        IN  /\ DOMAIN calc.out = DOMAIN calc.in
            /\ \A i \in DOMAIN calc.out : calc.out[i].den > 0
            /\ flat => \A i \in DOMAIN calc.out : calc.out[i].num = 0
            /\ \A i \in DOMAIN calc.out :
                  0 <= calc.out[i].num /\ calc.out[i].num <= calc.out[i].den

\* C7 happens: a column of several equal, non-zero values was normalised.
C7_Witness_FlatColumn ==
    /\ calc.fn = "normalize"
    /\ Len(calc.in) > 1
    /\ \A i \in DOMAIN calc.in : calc.in[i] = calc.in[1] /\ calc.in[i] > 0
    /\ \A i \in DOMAIN calc.out : calc.out[i] = Rat(0)

\* C8: raising one of demand, competition and cost while the other two stay
\* never lowers the attractiveness.
C8_AttractivenessMonotone ==
    calc.fn = "raised" =>
        ((\E i \in 1..3 :
             /\ calc.in[i] > calc.was[i]
             /\ \A j \in (1..3) \ {i} : calc.in[j] = calc.was[j])
         => calc.out >= calc.was_out)

\* C8 happens: the competition score alone was raised and the attractiveness
\* rose with it.
C8_Witness_CompetitionRaised ==
    /\ calc.fn = "raised"
    /\ calc.in[2] > calc.was[2]
    /\ calc.in[1] = calc.was[1]
    /\ calc.in[3] = calc.was[3]
    /\ calc.out > calc.was_out

\* C9: every rate gets exactly one of the scores 1, 2 and 4: a rate <= 3 gets
\* 1, a rate above 3 and <= 15 gets 4, a rate above 15 gets 2; 3.0 gets 1,
\* 3.1 gets 4, 15.0 gets 4 and 15.1 gets 2.
C9_PenetrationBuckets ==
    calc.fn = "get_u_label" =>
        LET rate  == calc.in
            score == LabelScore(calc.out)
        IN  /\ score \in {1, 2, 4}
            /\ rate.den > 0 =>
                 /\ rate.num <= 3 * rate.den => score = 1
                 /\ (rate.num > 3 * rate.den /\ rate.num <= 15 * rate.den) => score = 4
                 /\ rate.num > 15 * rate.den => score = 2
            /\ rate = FloatDiv(30, 10) => score = 1
            /\ rate = FloatDiv(31, 10) => score = 4
            /\ rate = FloatDiv(150, 10) => score = 4
            /\ rate = FloatDiv(151, 10) => score = 2

\* C9 happens at a boundary: the rate 3.0 was labelled, with score 1.
C9_Witness_LowerBoundary ==
    /\ calc.fn = "get_u_label"
    /\ calc.in = FloatDiv(30, 10)
    /\ LabelScore(calc.out) = 1

\* the competition row of a dong, if the table has one
CompRowsOf(table, code) == {j \in DOMAIN table : table[j].dong_code = code}

C11_ZeroCafesRateZero ==
    calc.fn = "penetration_rate" =>
        LET rate  == calc.out.rate
            score == LabelScore(calc.out.label)
        IN  /\ rate.den > 0
            /\ IF calc.in.cafes = 0
               THEN rate.num = 0
               ELSE rate.num * calc.in.cafes = calc.in.low_cost * 100 * rate.den
            /\ rate.num <= 3 * rate.den => score = 1
            /\ (rate.num > 3 * rate.den /\ rate.num <= 15 * rate.den) => score = 4
            /\ rate.num > 15 * rate.den => score = 2

\* the part of C11 that is about the rows with cafe_count > 0
PenetrationRateOfCafes == (calc.fn = "penetration_rate" /\ calc.in.cafes > 0) => C11_ZeroCafesRateZero

\* the dongs where brand b has a store
Footprint(b) == {i \in DOMAIN df_dong : df_dong[i].cnt[b] > 0}

\* the mean q of the attractiveness scores the dongs of S have
IsMeanOver(q, S) ==
    LET valid == {i \in S : df_dong[i].attractiveness_score # NaN}
        score == [i \in DOMAIN df_dong |-> df_dong[i].attractiveness_score]
    IN  valid # {} => (q.den > 0 /\ q.num * Cardinality(valid) = SumOver(score, valid) * q.den)

\* the part of C12 that is about the average: it is the mean over the dongs
\* of the brand's footprint (of those that have a score), and 0 for a brand
\* without footprint
AvgAttractivenessOfFootprint ==
    Started =>
        \A b \in BrandSet :
            IF Footprint(b) = {} THEN BRAND_ATTR_MAP(b) = Rat(0)
            ELSE IsMeanOver(BRAND_ATTR_MAP(b), Footprint(b))

\* C12: a brand's avg_attractiveness is the mean of attractiveness_score over
\* exactly the dongs where it has a store; for a brand with no store anywhere
\* it is 0 and the brand's dong_count is 0.
C12_AvgAttractiveness ==
    /\ AvgAttractivenessOfFootprint
    /\ Started => \A b \in BrandSet : Footprint(b) = {} => BRAND_STATS[b].dong_count = 0

\* C13: the dong_count of a brand's profile is the number of rows the dong
\* tab shows under that brand's filter with no dong selected.
C13_DongCountRoundTrip ==
    (selected_tab = "dong" /\ page = "ok" /\ dong_search = ALL /\ brand_filter \in BrandSet)
        => Len(df_view) = BRAND_STATS[brand_filter].dong_count

\* C14 as stated: after loading, every dong has a commercial_index among 1,
\* 2, 3, 4 and a penetration_score among 1, 2, 4, the dongs without overlay
\* entry included.
C14_BucketedMetrics ==
    calc.fn = "metrics_to_add" =>
        /\ DOMAIN calc.out = BucketMetrics
        /\ calc.out.commercial_index \in 1..4
        /\ calc.out.penetration_score \in {1, 2, 4}

\* the overlay has a value for this metric under the dong's normalised name
OverlayHas(detailed_data, name, metric) ==
    \E n \in DOMAIN detailed_data :
        n = StripName(name) /\ metric \in DOMAIN detailed_data[n]

\* C14 as the code has it: loaded from a non-empty overlay whose values are
\* bucketed, a dong's commercial_index is among 0, 1, 2, 3, 4 and its
\* penetration_score among 0, 1, 2, 4, and the value is 0 exactly when the
\* overlay has no value for the dong; with an empty overlay the two columns
\* are not created.
C14_BucketsOrDefault ==
    calc.fn = "metrics_to_add" =>
        IF DOMAIN calc.in.detailed_data = {}
        THEN DOMAIN calc.out = {}
        ELSE /\ DOMAIN calc.out = BucketMetrics
             /\ calc.out.commercial_index \in 0..4
             /\ calc.out.penetration_score \in {0, 1, 2, 4}
             /\ \A m \in BucketMetrics :
                   calc.out[m] = 0
                       <=> ~OverlayHas(calc.in.detailed_data, calc.in.dong_name, m)

\* C14 happens: a dong the overlay does not name was loaded from a non-empty
\* overlay, and both its metrics are 0.
C14_Witness_DongWithoutEntry ==
    /\ calc.fn = "metrics_to_add"
    /\ DOMAIN calc.in.detailed_data # {}
    /\ StripName(calc.in.dong_name) \notin DOMAIN calc.in.detailed_data
    /\ calc.out.commercial_index = 0
    /\ calc.out.penetration_score = 0

C16_EmptyResultIsEmptyState ==
    /\ (Started /\ selected_tab = "recommend"
            /\ FilterRecs(rec_brand, rec_search) = <<>>) =>
          page = "warning"
    /\ (Started /\ selected_tab = "dong" /\ sort_by \in DongColumns
            /\ FilterDongs(dong_search, brand_filter) = <<>>) =>
          /\ page = "ok"
          /\ df_view = <<>> /\ show_df = <<>>

\* what holds of the empty state: it is reached whenever the candidate list
\* has a record
EmptyStateOfLoadedCandidates == df_rec # <<>> => C16_EmptyResultIsEmptyState

\* the sum of a dong's store counts over the active brands
ActiveTotal(r) == SumOver(r.cnt, Range(ACTIVE_BRANDS(global_selected_brands)))

\* the dong table shows, for every row, the sum over the active brands
DongTableTotalOverActiveBrands ==
    (selected_tab = "dong" /\ page = "ok") =>
        \A i \in DOMAIN df_view : df_view[i].total_brand_count = ActiveTotal(df_view[i])

\* C17: whatever the brand selection, the total_brand_count shown in the dong
\* table is the sum over the active brands, and the top-30 chart keeps and
\* ranks the dongs by that same sum: its dongs have an active store, come in
\* non-increasing order of the sum, and no dong left out has a larger one.
C17_TotalOverActiveBrands ==
    /\ DongTableTotalOverActiveBrands
    /\ (selected_tab = "overview" /\ page = "ok") =>
          /\ \A i \in DOMAIN top30 : ActiveTotal(top30[i]) > 0
          /\ \A i, j \in DOMAIN top30 :
                i < j => ActiveTotal(top30[i]) >= ActiveTotal(top30[j])
          /\ \A d \in DOMAIN df_dong :
                (\A i \in DOMAIN top30 : top30[i].dong_code # df_dong[d].dong_code) =>
                    IF Len(top30) < ChartTop
                    THEN ActiveTotal(df_dong[d]) = 0
                    ELSE \A i \in DOMAIN top30 :
                            ActiveTotal(top30[i]) >= ActiveTotal(df_dong[d])

\* C18: for every brand shown on the overview tab, the total_stores of its
\* card and of the total-stores chart is the sum of the brand's store counts
\* over all dongs, the total the market-share chart computes from the table.
C18_TotalStoresIsTableSum ==
    (selected_tab = "overview" /\ page = "ok") =>
        /\ \A b \in Range(ACTIVE_BRANDS(global_selected_brands)) :
              BRAND_STATS[b].total_stores = total_counts(b)
        /\ \A i \in DOMAIN top_10_brands :
              BRAND_STATS[top_10_brands[i]].total_stores = total_counts(top_10_brands[i])

\* the records of df_r of one dong name
RecordsOf(dong) == {k \in DOMAIN df_r : df_r[k].dong_name = dong}

GroupScoreIsAvgAttractiveness ==
    \A g \in DOMAIN grouped_recs :
        \A i \in DOMAIN grouped_recs[g].brands :
            grouped_recs[g].scores[i] = BRAND_ATTR_MAP(grouped_recs[g].brands[i])

\* C20: within each recommendation group the brands come in non-increasing
\* order of their mean attractiveness (a brand without a mean ranking below
\* every brand that has one), and the score beside each brand is that mean.
C20_GroupBrandsByAvgAttractiveness ==
    /\ GroupScoreIsAvgAttractiveness
    /\ \A g \in DOMAIN grouped_recs :
          \A i, j \in DOMAIN grouped_recs[g].brands :
              i < j => RanksAtLeast(BRAND_ATTR_MAP(grouped_recs[g].brands[i]),
                                    BRAND_ATTR_MAP(grouped_recs[g].brands[j]))

\* a candidate record passes the recommendation tab's active filters
PassesRecFilters(r) ==
    /\ rec_brand = ALL \/ r.brand = rec_brand
    /\ rec_search = {} \/ r.dong_name \in rec_search

\* a dong row passes the dong tab's active filters
PassesDongFilters(r) ==
    /\ dong_search = ALL \/ r.dong_name = dong_search
    /\ brand_filter = ALL \/ r.cnt[brand_filter] > 0

\* C21: the filtered set is exactly the set of items that pass every active
\* filter, an inactive filter ("all", no dong chosen) passing everything: the
\* dong table holds each passing dong once and no other; the recommendation
\* list holds passing records only, each once, and all of them up to the
\* truncation.
C21_FilteringExact ==
    /\ (selected_tab = "dong" /\ page = "ok") =>
          /\ {df_view[i].dong_code : i \in DOMAIN df_view}
                = {df_dong[d].dong_code : d \in {e \in DOMAIN df_dong :
                                                    PassesDongFilters(df_dong[e])}}
          /\ \A i, j \in DOMAIN df_view :
                df_view[i].dong_code = df_view[j].dong_code => i = j
    /\ (selected_tab = "recommend" /\ page # "KeyError") =>
          /\ \A i \in DOMAIN df_r : PassesRecFilters(df_r[i])
          /\ \A i \in DOMAIN df_r : \E k \in DOMAIN df_rec : df_rec[k].index = df_r[i].index
          /\ \A i, j \in DOMAIN df_r : df_r[i].index = df_r[j].index => i = j
          /\ Len(df_r) = Min(RecHead,
                             Cardinality({k \in DOMAIN df_rec : PassesRecFilters(df_rec[k])}))

\* C21 happens: a brand and a dong are chosen on the recommendation tab, a
\* record passes and another is removed.
C21_Witness_BothFiltersActive ==
    /\ selected_tab = "recommend"
    /\ rec_brand # ALL
    /\ rec_search # {}
    /\ df_r # <<>>
    /\ \E k \in DOMAIN df_rec : df_rec[k].brand = rec_brand /\ df_rec[k].dong_name \notin rec_search


\* with an overlay that has an entry, every metric column is loaded: the
\* overlay's value under the stripped name, 0 without one
LoadedFromPresentOverlay ==
    (calc.fn = "metrics_to_add" /\ DOMAIN calc.in.detailed_data # {}) =>
        \A m \in BucketMetrics :
            /\ m \in DOMAIN calc.out
            /\ calc.out[m] =
                 IF OverlayHas(calc.in.detailed_data, calc.in.dong_name, m)
                 THEN calc.in.detailed_data[StripName(calc.in.dong_name)][m]
                 ELSE 0

\* C22: whatever the overlay, absent altogether included, every metric column
\* is loaded for every dong: its value is the overlay's value under the dong
\* name without middle dot, period and bullet, and 0 when the overlay has no
\* such entry or metric.
C22_MetricsAlwaysLoaded ==
    calc.fn = "metrics_to_add" =>
        \A m \in BucketMetrics :
            /\ m \in DOMAIN calc.out
            /\ calc.out[m] =
                 IF OverlayHas(calc.in.detailed_data, calc.in.dong_name, m)
                 THEN calc.in.detailed_data[StripName(calc.in.dong_name)][m]
                 ELSE 0


\* the scores and counts a dong shows in the dong table are those of the
\* shared table, and every record of the recommendation list is a record of
\* the loaded candidates
ViewValuesAreLoadedValues ==
    /\ \A i \in DOMAIN df_view :
          \E d \in DOMAIN df_dong :
              /\ df_dong[d].dong_code = df_view[i].dong_code
              /\ df_dong[d].attractiveness_score = df_view[i].attractiveness_score
              /\ df_dong[d].demand_score = df_view[i].demand_score
              /\ df_dong[d].cost_score = df_view[i].cost_score
              /\ df_dong[d].cnt = df_view[i].cnt
    /\ \A i \in DOMAIN df_r : \E k \in DOMAIN df_rec : df_rec[k] = df_r[i]

\* C23: no change of filter, sort key, brand selection or tab alters what was
\* loaded: the shared dong table (scores, brand counts, total_brand_count),
\* the candidate records and the brand totals are after every step what they
\* were before it, and a view shows a dong's scores as the table has them.
C23_SnapshotUnaltered ==
    /\ []ViewValuesAreLoadedValues
    /\ [][/\ df_dong' = df_dong
          /\ df_rec' = df_rec
          /\ BRAND_STATS' = BRAND_STATS]_vars

\* C23 happens: with a brand selection the dong tab has recounted a dong's
\* total in its view, and the shared table still has the total over all
\* brands.
C23_Witness_RecountInViewOnly ==
    /\ selected_tab = "dong"
    /\ global_selected_brands # <<>>
    /\ \E i \in DOMAIN df_view : \E d \in DOMAIN df_dong :
          /\ df_dong[d].dong_code = df_view[i].dong_code
          /\ df_dong[d].total_brand_count # df_view[i].total_brand_count
          /\ df_dong[d].total_brand_count = SumOver(df_dong[d].cnt, BrandSet)


\* C24: two dongs with different codes are never merged or selected
\* together, even under one name: the records of a recommendation group are
\* all of one dong code, and the dong table filtered to one dong shows rows
\* of one dong code.
C24_DistinctCodesNeverMerged ==
    /\ \A g \in DOMAIN grouped_recs :
          \A i, j \in RecordsOf(grouped_recs[g].dong_name) :
              df_r[i].dong_code = df_r[j].dong_code
    /\ (selected_tab = "dong" /\ dong_search # ALL /\ page = "ok") =>
          \A i, j \in DOMAIN df_view : df_view[i].dong_code = df_view[j].dong_code

\* what holds of the names: dongs are grouped and selected by name, so with
\* names that are unique to a code no two codes come together
UniqueNamesNeverMerged ==
    (\A d, e \in DOMAIN df_dong :
        df_dong[d].dong_name = df_dong[e].dong_name => d = e)
    => C24_DistinctCodesNeverMerged


\* C25: whatever brands were selected and unselected, the active brand list
\* holds brands of the snapshot only, is the whole brand list when nothing is
\* selected and the selection otherwise, and is never empty; the brand cards
\* and the brand selectboxes go by it.
C25_ActiveBrands ==
    LET active == ACTIVE_BRANDS(global_selected_brands)
    IN  /\ Range(active) \subseteq BrandSet
        /\ global_selected_brands = <<>> => active = BRANDS
        /\ global_selected_brands # <<>> => active = global_selected_brands
        /\ active # <<>>
        /\ \A i, j \in DOMAIN active : active[i] = active[j] => i = j
        /\ brand_filter \in {ALL} \cup Range(active)
        /\ rec_brand \in {ALL} \cup Range(active)
        /\ (selected_tab = "overview" /\ page = "ok") =>
              /\ Range(top_10_brands) \subseteq Range(active)
              /\ Len(top_10_brands) = Min(TopBrands, Len(active))

\* C25 happens: one brand is selected, and the overview shows that brand
\* alone.
C25_Witness_OneBrandLeft ==
    /\ global_selected_brands = <<BRANDS[Len(BRANDS)]>>
    /\ selected_tab = "overview"
    /\ page = "ok"
    /\ top_10_brands = global_selected_brands


\* key a ranks at or above key b in a descending table, a missing key
\* ranking below every value
KeyAtLeast(a, b) == b = NaN \/ (a # NaN /\ a >= b)

\* the dong names of the groups shown
DisplayedNames == {grouped_recs[g].dong_name : g \in DOMAIN grouped_recs}

\* C26: the recommendation tab shows at most the card limit of groups; they
\* are the first distinct dong names of the sorted records, each with its
\* first record as the card's figures; so the groups come in non-increasing
\* order of the chosen sort key, and no dong left out of the display has a
\* candidate record (under the filters) of a greater key than a group shown.
C26_FirstGroupsInKeyOrder ==
    selected_tab = "recommend" =>
        /\ Len(grouped_recs) <= CardLimit
        /\ \A g \in DOMAIN grouped_recs :
              \E k \in DOMAIN df_r :
                  /\ df_r[k] = grouped_recs[g].data
                  /\ \A m \in 1..(k - 1) :
                        \E h \in 1..g : grouped_recs[h].dong_name = df_r[m].dong_name
                  /\ \A h \in 1..(g - 1) :
                        grouped_recs[h].dong_name # grouped_recs[g].dong_name
        /\ \A k \in DOMAIN df_r :
              df_r[k].dong_name \notin DisplayedNames => Len(grouped_recs) = CardLimit
        /\ \A g, h \in DOMAIN grouped_recs :
              g < h => KeyAtLeast(grouped_recs[g].data[rec_sort],
                                  grouped_recs[h].data[rec_sort])
        /\ \A k \in DOMAIN df_rec :
              (PassesRecFilters(df_rec[k]) /\ df_rec[k].dong_name \notin DisplayedNames) =>
                  \A g \in DOMAIN grouped_recs :
                      KeyAtLeast(grouped_recs[g].data[rec_sort], df_rec[k][rec_sort])

\* C26 happens: the card limit is reached and a dong with a candidate record
\* is left out of the display.
C26_Witness_DongLeftOut ==
    /\ selected_tab = "recommend"
    /\ Len(grouped_recs) = CardLimit
    /\ \E k \in DOMAIN df_r : df_r[k].dong_name \notin DisplayedNames


\* C27: each group shown lists every brand that has a candidate record for
\* the group's dong under the current brand and dong filters; the truncation
\* of the sorted records before grouping takes no brand out of a group shown.
C27_GroupListsEveryBrand ==
    selected_tab = "recommend" =>
        \A g \in DOMAIN grouped_recs :
            \A k \in DOMAIN df_rec :
                (PassesRecFilters(df_rec[k])
                    /\ df_rec[k].dong_name = grouped_recs[g].dong_name) =>
                        df_rec[k].brand \in Range(grouped_recs[g].brands)

\* what holds of the groups: when the filters pass no more records than the
\* truncation keeps, every group lists every brand of its dong
UntruncatedGroupListsEveryBrand ==
    Cardinality({k \in DOMAIN df_rec : PassesRecFilters(df_rec[k])}) <= RecHead
        => C27_GroupListsEveryBrand


\* the stores of the brand over all dongs of the chart's table
VitalityTotal == SumOver([i \in DOMAIN calc.in.rows |-> calc.in.rows[i].cnt],
                         DOMAIN calc.in.rows)

\* C28: in the vitality distribution the store counts reported over the four
\* categories sum to the brand's total store count over all dongs: no store
\* is left out.
C28_VitalitySumsToTotal ==
    (calc.fn = "vitality_dist" /\ calc.out.status = "ok") =>
        SumOver(calc.out.dist, DOMAIN calc.out.dist) = VitalityTotal

\* what holds of the distribution: the counts reported sum to the stores of
\* the dongs whose loaded commercial index is one of the four categories
VitalitySumsOverCategorisedDongs ==
    (calc.fn = "vitality_dist" /\ calc.out.status = "ok") =>
        LET rows == calc.in.rows
            categorised ==
                {i \in DOMAIN rows :
                    /\ OverlayHas(calc.in.detailed_data, rows[i].dong_name, "commercial_index")
                    /\ calc.in.detailed_data[StripName(rows[i].dong_name)].commercial_index
                          \in change_labels}
        IN  SumOver(calc.out.dist, DOMAIN calc.out.dist)
                = SumOver([i \in DOMAIN rows |-> rows[i].cnt], categorised)


====
